---------------------------- MODULE Spec2Model ----------------------------
(***************************************************************************)
(* A model of the two option-pricing engines of the repository:           *)
(*   src/binomial_option.py     price_binomial_option (CRR lattice)        *)
(*   src/monte_carlo_option.py  price_monte_carlo_option, _simulate_path,  *)
(*                              build_expression_payoff                    *)
(*                                                                         *)
(* Numbers.  The code computes in IEEE doubles.  The model computes in     *)
(* exact rationals <<n, d>> (d > 0, lowest terms), so +, -, *, / and the   *)
(* comparisons are those of the reals.  The two library functions the code *)
(* calls are modelled by what they return on the model's small range:      *)
(*   math.sqrt  -> Sqrt, exact on squares and rounded down to a grid       *)
(*                 otherwise (a double sqrt is rounded as well);           *)
(*   math.exp   -> Exp, the (2+x)/(2-x) approximant on -2 < x < 2, which   *)
(*                 keeps exp(0) = 1, exp(x) > 0, monotonicity and          *)
(*                 exp(-x) = 1/exp(x); at and above the top of the range   *)
(*                 the call raises OverflowError ("math range error") as   *)
(*                 math.exp does above ~709.78, and at and below the       *)
(*                 bottom of the range it returns 0 as math.exp does       *)
(*                 below ~-745.13.                                         *)
(* What only doubles do is outside the model: rounding (two ways of        *)
(* computing one real number agree here and may differ in the last bits    *)
(* there), the underflow of maturity / steps to 0.0 that line 82 of        *)
(* binomial_option.py tests for, and the OverflowError of up ** i.         *)
(***************************************************************************)
EXTENDS Integers, Sequences, FiniteSets, TLC

VARIABLES lat, mc, hist, ev

vars == <<lat, mc, hist, ev>>

-----------------------------------------------------------------------------
(* Rational arithmetic: Python float +, -, *, /, <=, max, ** on the reals. *)

Abs(x) == IF x < 0 THEN -x ELSE x

RECURSIVE Gcd(_, _)
Gcd(a, b) == IF b = 0 THEN a ELSE Gcd(b, a % b)

\* n/d in lowest terms with a positive denominator (d # 0).
Rat(n, d) ==
    LET g == Gcd(Abs(n), Abs(d))
        s == IF d < 0 THEN -1 ELSE 1
    IN  <<(s * n) \div g, (s * d) \div g>>

Zero == <<0, 1>>
One == <<1, 1>>
Half == <<1, 2>>

\* The value of a local that has not been assigned yet.
None == <<0, 0>>

\* a + b over the least common denominator.
RAdd(a, b) ==
    LET g == Gcd(a[2], b[2])
    IN  Rat(a[1] * (b[2] \div g) + b[1] * (a[2] \div g), (a[2] \div g) * b[2])
RNeg(a) == <<-a[1], a[2]>>
RSub(a, b) == RAdd(a, RNeg(b))
\* a * b, cancelling across before multiplying.
RMul(a, b) ==
    LET g == Gcd(Abs(a[1]), b[2])
        h == Gcd(Abs(b[1]), a[2])
    IN  Rat((a[1] \div g) * (b[1] \div h), (a[2] \div h) * (b[2] \div g))
\* a / b for b # 0; the callers raise ZeroDivisionError when b = 0.
RDiv(a, b) == RMul(a, Rat(b[2], b[1]))
\* n1/d1 <= n2/d2 for naturals (d1, d2 > 0), by integer parts and then the
\* reciprocals of the fractional parts, so that nothing is multiplied.
RECURSIVE NatLe(_, _, _, _)
NatLe(n1, d1, n2, d2) ==
    LET q1 == n1 \div d1
        q2 == n2 \div d2
        r1 == n1 % d1
        r2 == n2 % d2
    IN  IF q1 # q2 THEN q1 < q2
        ELSE IF r1 = 0 THEN TRUE
        ELSE IF r2 = 0 THEN FALSE
        ELSE NatLe(d2, r2, d1, r1)
RLe(a, b) ==
    IF a[1] <= 0 /\ b[1] >= 0 THEN TRUE
    ELSE IF a[1] > 0 /\ b[1] <= 0 THEN FALSE
    ELSE IF a[1] > 0 THEN NatLe(a[1], a[2], b[1], b[2])
    ELSE NatLe(-b[1], b[2], -a[1], a[2])
RLt(a, b) == ~RLe(b, a)
\* Python's max(a, b): b only when b > a.
RMax(a, b) == IF RLt(a, b) THEN b ELSE a
FromInt(n) == <<n, 1>>

\* a ** k for an integer k >= 0.
RECURSIVE RPow(_, _)
RPow(a, k) == IF k = 0 THEN One ELSE RMul(a, RPow(a, k - 1))

\* floor of the square root of a natural number.
ISqrt(n) == CHOOSE k \in 0..n : k * k <= n /\ n < (k + 1) * (k + 1)

\* math.sqrt(x) for x >= 0, rounded down to the grid 1/(4 * denominator).
Sqrt(x) == Rat(ISqrt(x[1] * x[2] * 16), x[2] * 4)

\* math.exp(x) raises OverflowError.
ExpOverflows(x) == RLe(FromInt(2), x)

\* math.exp(x) when it returns.
Exp(x) ==
    IF RLe(x, FromInt(-2)) THEN Zero
    ELSE RDiv(RAdd(FromInt(2), x), RSub(FromInt(2), x))


-----------------------------------------------------------------------------
(* Bounds and the inputs a caller may pass.                                *)

MaxSteps == 3

Spots == {FromInt(-1), Zero, One}
Strikes == {Zero, One, FromInt(2)}
Rates == {FromInt(-1), Zero, One}
Volatilities == {Zero, Half, One, FromInt(2)}
Maturities == {Zero, One}
StepCounts == 0..MaxSteps
Yields == {Zero, One}
OptionTypes == {"call", "put"}
ExerciseStyles == {"european", "american"}

-----------------------------------------------------------------------------
(* Exceptions.  Every failure of price_binomial_option is a Python         *)
(* exception; the two error kinds of the contract are both ValueError and  *)
(* differ by the message.                                                  *)

NoError == [type |-> "", msg |-> ""]

SpotMsg == "spot price must be positive"
StrikeMsg == "strike price must be positive"
MaturityMsg == "maturity must be positive"
StepsMsg == "steps must be at least 1"
ZeroDtMsg == "time step size became zero"
ProbMsg == "risk-neutral probability is outside [0, 1]; adjust inputs"

\* InvalidParameter: a ValueError of _validate_inputs.
InvalidParameter(e) ==
    e.type = "ValueError" /\ e.msg \in {SpotMsg, StrikeMsg, MaturityMsg, StepsMsg}

\* InvalidModel: the ValueError of the probability check.
InvalidModel(e) == e.type = "ValueError" /\ e.msg = ProbMsg

-----------------------------------------------------------------------------
(* binomial_option.py                                                      *)

\* _validate_inputs with "spot < 0" written for "spot <= 0".
ValidateInputsStrictSpot(spot, strike, maturity, steps) ==
    IF RLt(spot, Zero) THEN [type |-> "ValueError", msg |-> SpotMsg]
    ELSE IF RLe(strike, Zero) THEN [type |-> "ValueError", msg |-> StrikeMsg]
    ELSE IF RLe(maturity, Zero) THEN [type |-> "ValueError", msg |-> MaturityMsg]
    ELSE IF steps < 1 THEN [type |-> "ValueError", msg |-> StepsMsg]
    ELSE NoError

\* _validate_inputs: the exception it raises, NoError when it returns.
ValidateInputs(spot, strike, maturity, steps) ==
    IF RLe(spot, Zero) THEN [type |-> "ValueError", msg |-> SpotMsg]
    ELSE IF RLe(strike, Zero) THEN [type |-> "ValueError", msg |-> StrikeMsg]
    ELSE IF RLe(maturity, Zero) THEN [type |-> "ValueError", msg |-> MaturityMsg]
    ELSE IF steps < 1 THEN [type |-> "ValueError", msg |-> StepsMsg]
    ELSE NoError

\* spot * (up ** i) * (down ** (n - i))
AssetPrice(spot, up, down, i, n) ==
    RMul(RMul(spot, RPow(up, i)), RPow(down, n - i))

\* max(asset_price - strike, 0.0) if call else max(strike - asset_price, 0.0)
Intrinsic(asset_price, strike, option_type) ==
    IF option_type = "call"
    THEN RMax(RSub(asset_price, strike), Zero)
    ELSE RMax(RSub(strike, asset_price), Zero)

\* (growth - down) / (up - down), for up # down
ProbUp(growth, up, down) == RDiv(RSub(growth, down), RSub(up, down))

\* The probability check with the lower bound left out: not prob_up <= 1.
ProbAboveOne(prob_up) == ~RLe(prob_up, One)

\* not 0 <= prob_up <= 1
ProbOutside(prob_up) == ~(RLe(Zero, prob_up) /\ RLe(prob_up, One))

\* The continuation with the two weights exchanged.
ContinuationSwapped(discount, prob_up, hi, lo) ==
    RMul(discount, RAdd(RMul(prob_up, lo), RMul(RSub(One, prob_up), hi)))

\* discount * (prob_up * payoffs[i + 1] + (1 - prob_up) * payoffs[i])
Continuation(discount, prob_up, hi, lo) ==
    RMul(discount, RAdd(RMul(prob_up, hi), RMul(RSub(One, prob_up), lo)))

\* The terminal payoffs, entries 0..steps (kept at indices 1..steps+1).
TerminalPayoffs(spot, strike, up, down, steps, option_type) ==
    [k \in 1..(steps + 1) |->
        Intrinsic(AssetPrice(spot, up, down, k - 1, steps), strike, option_type)]

\* The loop body with the american branch assigning the intrinsic value
\* alone, the max with the continuation left out.
NodeValueIntrinsicOnly(f, payoffs, step, i) ==
    LET continuation == Continuation(f.discount, f.prob_up, payoffs[i + 2], payoffs[i + 1])
    IN  IF f.american
        THEN Intrinsic(AssetPrice(f.spot, f.up, f.down, i, step), f.strike, f.option_type)
        ELSE continuation

\* The value the loop body assigns to payoffs[i] at (step, i).
NodeValue(f, payoffs, step, i) ==
    LET continuation == Continuation(f.discount, f.prob_up, payoffs[i + 2], payoffs[i + 1])
    IN  IF f.american
        THEN RMax(continuation,
                  Intrinsic(AssetPrice(f.spot, f.up, f.down, i, step), f.strike, f.option_type))
        ELSE continuation

\* Lines 105-114 run from the iteration (step, i) up to, not including, the
\* iteration (stop_step, stop_i); stop_step = -1 runs the loops to their end.
RECURSIVE InductionFrom(_, _, _, _, _, _)
InductionFrom(f, payoffs, step, i, stop_step, stop_i) ==
    IF step < 0 \/ (step = stop_step /\ i = stop_i) THEN payoffs
    ELSE LET updated == [payoffs EXCEPT ![i + 1] = NodeValue(f, payoffs, step, i)]
         IN  IF i < step
             THEN InductionFrom(f, updated, step, i + 1, stop_step, stop_i)
             ELSE InductionFrom(f, updated, step - 1, 0, stop_step, stop_i)

\* The frame of a call that has not started.
Idle ==
    [pc |-> "idle", spot |-> None, strike |-> None, rate |-> None, volatility |-> None,
     maturity |-> None, steps |-> 0, option_type |-> "call", exercise |-> "european",
     dividend_yield |-> None, dt |-> None, up |-> None, down |-> None, growth |-> None,
     prob_up |-> None, discount |-> None, payoffs |-> <<>>, american |-> FALSE,
     step |-> 0, i |-> 0, result |-> None, error |-> NoError]

Raise(f, type, msg) == [f EXCEPT !.pc = "raised", !.error = [type |-> type, msg |-> msg]]

\* A caller calls price_binomial_option(...); nothing of the body has run.
Call ==
    /\ lat.pc = "idle"
    /\ \E spot \in Spots, strike \in Strikes, rate \in Rates, volatility \in Volatilities,
          maturity \in Maturities, steps \in StepCounts, option_type \in OptionTypes,
          exercise \in ExerciseStyles, dividend_yield \in Yields :
          lat' = [Idle EXCEPT !.pc = "validate", !.spot = spot, !.strike = strike,
                     !.rate = rate, !.volatility = volatility, !.maturity = maturity,
                     !.steps = steps, !.option_type = option_type,
                     !.exercise = exercise, !.dividend_yield = dividend_yield]
    /\ UNCHANGED <<mc, hist, ev>>

\* line 79
Validate ==
    /\ lat.pc = "validate"
    /\ LET e == ValidateInputs(lat.spot, lat.strike, lat.maturity, lat.steps)
       IN  lat' = IF e = NoError THEN [lat EXCEPT !.pc = "factors"]
                  ELSE Raise(lat, e.type, e.msg)
    /\ UNCHANGED <<mc, hist, ev>>

\* lines 81-89: dt, up, down, growth, prob_up, each statement in order.
ComputeFactors ==
    /\ lat.pc = "factors"
    /\ LET dt == RDiv(lat.maturity, FromInt(lat.steps))
           f1 == [lat EXCEPT !.dt = dt]
           x == RMul(lat.volatility, Sqrt(dt))
           up == Exp(x)
           f2 == [f1 EXCEPT !.up = up]
           down == RDiv(One, up)
           f3 == [f2 EXCEPT !.down = down]
           y == RMul(RSub(lat.rate, lat.dividend_yield), dt)
           growth == Exp(y)
           f4 == [f3 EXCEPT !.growth = growth]
       IN  lat' =
             IF dt = Zero THEN Raise(f1, "ValueError", ZeroDtMsg)
             ELSE IF ExpOverflows(x) THEN Raise(f1, "OverflowError", "math range error")
             ELSE IF up = Zero THEN Raise(f2, "ZeroDivisionError", "float division by zero")
             ELSE IF ExpOverflows(y) THEN Raise(f3, "OverflowError", "math range error")
             ELSE IF up = down THEN Raise(f4, "ZeroDivisionError", "float division by zero")
             ELSE [f4 EXCEPT !.prob_up = ProbUp(growth, up, down), !.pc = "check"]
    /\ UNCHANGED <<mc, hist, ev>>

\* lines 91-94: the probability check, then the discount factor.
CheckProbability ==
    /\ lat.pc = "check"
    /\ LET z == RMul(RNeg(lat.rate), lat.dt)
       IN  lat' =
             IF ProbOutside(lat.prob_up) THEN Raise(lat, "ValueError", ProbMsg)
             ELSE IF ExpOverflows(z) THEN Raise(lat, "OverflowError", "math range error")
             ELSE [lat EXCEPT !.discount = Exp(z), !.pc = "terminal"]
    /\ UNCHANGED <<mc, hist, ev>>

\* lines 96-104: the terminal payoffs and the american flag.
Terminal ==
    /\ lat.pc = "terminal"
    /\ lat' = [lat EXCEPT
                 !.payoffs = TerminalPayoffs(lat.spot, lat.strike, lat.up, lat.down,
                                             lat.steps, lat.option_type),
                 !.american = (lat.exercise = "american"),
                 !.step = lat.steps - 1, !.i = 0, !.pc = "induct"]
    /\ UNCHANGED <<mc, hist, ev>>

\* The inner loop run in descending i: the iteration counted lat.i updates
\* the entry step - lat.i, so it reads the entry above it after that entry
\* has been overwritten in the same pass.
InductionStepDescending ==
    /\ lat.pc = "induct"
    /\ LET v == NodeValue(lat, lat.payoffs, lat.step, lat.step - lat.i)
           f == [lat EXCEPT !.payoffs[lat.step - lat.i + 1] = v]
       IN  lat' =
             IF lat.i < lat.step THEN [f EXCEPT !.i = lat.i + 1]
             ELSE IF lat.step > 0 THEN [f EXCEPT !.step = lat.step - 1, !.i = 0]
             ELSE [f EXCEPT !.pc = "return"]
    /\ UNCHANGED <<mc, hist, ev>>

\* lines 105-114: one iteration of the inner loop, at (step, i).
InductionStep ==
    /\ lat.pc = "induct"
    /\ LET v == NodeValue(lat, lat.payoffs, lat.step, lat.i)
           f == [lat EXCEPT !.payoffs[lat.i + 1] = v]
       IN  lat' =
             IF lat.i < lat.step THEN [f EXCEPT !.i = lat.i + 1]
             ELSE IF lat.step > 0 THEN [f EXCEPT !.step = lat.step - 1, !.i = 0]
             ELSE [f EXCEPT !.pc = "return"]
    /\ UNCHANGED <<mc, hist, ev>>

\* line 116
Return ==
    /\ lat.pc = "return"
    /\ lat' = [lat EXCEPT !.result = lat.payoffs[1], !.pc = "returned"]
    /\ UNCHANGED <<mc, hist, ev>>

\* The caller has the price or the exception; the frame is gone.
Leave ==
    /\ lat.pc \in {"returned", "raised"}
    /\ lat' = Idle
    /\ UNCHANGED <<mc, hist, ev>>

-----------------------------------------------------------------------------
(* monte_carlo_option.py                                                   *)

MaxSimSteps == 2
MaxPaths == 2

McSpots == {Zero, One}
McRates == {One}
McVolatilities == {FromInt(-1), Zero, One}
McMaturities == {Zero, One}
McStepCounts == 0..MaxSimSteps
McPathCounts == 0..MaxPaths
McYields == {Zero, One}
\* seed: <<>> is None, <<n>> is the integer n.
Seeds == {<<>>, <<0>>, <<1>>}

\* The payoff callables a caller passes: stateless functions of the path.
PayoffNames == {"call", "average"}

VolatilityMsg == "volatility must be non-negative"
PathsMsg == "paths must be at least 1"

\* sum(xs), left to right from 0.
RECURSIVE RSum(_)
RSum(xs) == IF xs = <<>> THEN Zero ELSE RAdd(RSum(SubSeq(xs, 1, Len(xs) - 1)), xs[Len(xs)])

\* payoff(path): "call" is max(s - strike, 0) with strike 1, "average" is
\* sum(path) / len(path).
PayoffValue(name, path) ==
    IF name = "call" THEN RMax(RSub(path[Len(path)], One), Zero)
    ELSE RDiv(RSum(path), FromInt(Len(path)))

\* random.Random: a deterministic generator, here one of 8 states.
RngStates == 0..7
\* random.Random(n) for an integer n: the state is a function of n.
RngFromSeed(n) == n % 8
\* The generator after one normalvariate call.
RngAdvance(state) == (5 * state + 3) % 8
\* The variate that normalvariate(0.0, 1.0) returns in this state.
NormalVariate(state) == FromInt((state % 3) - 1)

\* random.Random() written for random.Random(seed): the seed is ignored.
NewRandomUnseeded(seed, entropy) == entropy

\* random.Random(seed): seeded from the integer, or from the operating
\* system's entropy when seed is None.
NewRandom(seed, entropy) == IF seed = <<>> THEN entropy ELSE RngFromSeed(seed[1])

\* _validate_inputs without the volatility check, as the validator of
\* binomial_option.py is.
McValidateInputsNoVolatility(spot, volatility, maturity, steps, paths) ==
    IF RLe(spot, Zero) THEN [type |-> "ValueError", msg |-> SpotMsg]
    ELSE IF RLe(maturity, Zero) THEN [type |-> "ValueError", msg |-> MaturityMsg]
    ELSE IF steps < 1 THEN [type |-> "ValueError", msg |-> StepsMsg]
    ELSE IF paths < 1 THEN [type |-> "ValueError", msg |-> PathsMsg]
    ELSE NoError

\* monte_carlo_option._validate_inputs
McValidateInputs(spot, volatility, maturity, steps, paths) ==
    IF RLe(spot, Zero) THEN [type |-> "ValueError", msg |-> SpotMsg]
    ELSE IF RLt(volatility, Zero) THEN [type |-> "ValueError", msg |-> VolatilityMsg]
    ELSE IF RLe(maturity, Zero) THEN [type |-> "ValueError", msg |-> MaturityMsg]
    ELSE IF steps < 1 THEN [type |-> "ValueError", msg |-> StepsMsg]
    ELSE IF paths < 1 THEN [type |-> "ValueError", msg |-> PathsMsg]
    ELSE NoError

\* InvalidParameter of price_monte_carlo_option.
McInvalidParameter(e) ==
    /\ e.type = "ValueError"
    /\ e.msg \in {SpotMsg, VolatilityMsg, MaturityMsg, StepsMsg, PathsMsg}

\* (rate - dividend_yield - 0.5 * volatility * volatility) * dt
Drift(rate, dividend_yield, volatility, dt) ==
    RMul(RSub(RSub(rate, dividend_yield), RMul(RMul(Half, volatility), volatility)), dt)

\* The diffusion with the volatility factor left out.
DiffusionUnscaled(volatility, dt) == Sqrt(dt)

\* volatility * math.sqrt(dt)
Diffusion(volatility, dt) == RMul(volatility, Sqrt(dt))

\* drift + diffusion * z, the argument of math.exp at line 57
StepExponent(drift, diffusion, z) == RAdd(drift, RMul(diffusion, z))

\* The frame of _simulate_path before it is called.
NoSim == [dt |-> None, drift |-> None, diffusion |-> None, prices |-> <<>>, current |-> None]

\* The frame of price_monte_carlo_option before it is called.  drawn and
\* calls are history: every variate drawn, and every path handed to payoff.
McIdle ==
    [pc |-> "idle", spot |-> None, rate |-> None, volatility |-> None, maturity |-> None,
     steps |-> 0, paths |-> 0, payoff |-> "call", dividend_yield |-> None, seed |-> <<>>,
     rng |-> <<>>, discount |-> None, payoffs |-> <<>>, path |-> <<>>, sim |-> NoSim,
     result |-> None, error |-> NoError, drawn |-> <<>>, calls |-> <<>>]

\* The arguments of the call.
McArgs(f) ==
    [spot |-> f.spot, rate |-> f.rate, volatility |-> f.volatility, maturity |-> f.maturity,
     steps |-> f.steps, paths |-> f.paths, payoff |-> f.payoff,
     dividend_yield |-> f.dividend_yield, seed |-> f.seed]

\* A caller calls price_monte_carlo_option(...).
McCall ==
    /\ mc.pc = "idle"
    /\ \E spot \in McSpots, rate \in McRates, volatility \in McVolatilities,
          maturity \in McMaturities, steps \in McStepCounts, paths \in McPathCounts,
          payoff \in PayoffNames, dividend_yield \in McYields, seed \in Seeds :
          mc' = [McIdle EXCEPT !.pc = "validate", !.spot = spot, !.rate = rate,
                    !.volatility = volatility, !.maturity = maturity, !.steps = steps,
                    !.paths = paths, !.payoff = payoff, !.dividend_yield = dividend_yield,
                    !.seed = seed]
    /\ hist' = IF hist # <<>> /\ hist[1].args # McArgs(mc')
               THEN <<[hist[1] EXCEPT !.others = TRUE]>>
               ELSE hist
    /\ UNCHANGED <<lat, ev>>

\* lines 137-143
McValidate ==
    /\ mc.pc = "validate"
    /\ LET e == McValidateInputs(mc.spot, mc.volatility, mc.maturity, mc.steps, mc.paths)
       IN  mc' = IF e = NoError THEN [mc EXCEPT !.pc = "setup"]
                 ELSE Raise(mc, e.type, e.msg)
    /\ UNCHANGED <<lat, hist, ev>>

\* lines 145-148: the generator, the discount factor, the empty payoffs.
McSetup ==
    /\ mc.pc = "setup"
    /\ \E entropy \in RngStates :
          LET f == [mc EXCEPT !.rng = <<NewRandom(mc.seed, entropy)>>]
              x == RMul(RNeg(mc.rate), mc.maturity)
          IN  mc' = IF ExpOverflows(x) THEN Raise(f, "OverflowError", "math range error")
                    ELSE [f EXCEPT !.discount = Exp(x), !.payoffs = <<>>, !.pc = "loop"]
    /\ UNCHANGED <<lat, hist, ev>>

\* _simulate_path continuing the list of the previous trial instead of
\* starting a new one (a list shared between calls).
BeginPathReusing ==
    /\ mc.pc = "loop"
    /\ Len(mc.payoffs) < mc.paths
    /\ LET dt == RDiv(mc.maturity, FromInt(mc.steps))
           prices == IF mc.path = <<>> THEN <<mc.spot>> ELSE mc.path
       IN  mc' = [mc EXCEPT !.pc = "simulate",
                     !.sim = [dt |-> dt,
                              drift |-> Drift(mc.rate, mc.dividend_yield, mc.volatility, dt),
                              diffusion |-> Diffusion(mc.volatility, dt),
                              prices |-> prices,
                              current |-> prices[Len(prices)]]]
    /\ UNCHANGED <<lat, hist, ev>>

\* lines 149-150 and 49-54: the next trial calls _simulate_path, which
\* starts a new list of prices.
BeginPath ==
    /\ mc.pc = "loop"
    /\ Len(mc.payoffs) < mc.paths
    /\ LET dt == RDiv(mc.maturity, FromInt(mc.steps))
       IN  mc' = [mc EXCEPT !.pc = "simulate",
                     !.sim = [dt |-> dt,
                              drift |-> Drift(mc.rate, mc.dividend_yield, mc.volatility, dt),
                              diffusion |-> Diffusion(mc.volatility, dt),
                              prices |-> <<mc.spot>>,
                              current |-> mc.spot]]
    /\ UNCHANGED <<lat, hist, ev>>

\* lines 55-58: one iteration of the loop of _simulate_path.
SimulateStep ==
    /\ mc.pc = "simulate"
    /\ Len(mc.sim.prices) - 1 < mc.steps
    /\ LET z == NormalVariate(mc.rng[1])
           f == [mc EXCEPT !.rng = <<RngAdvance(mc.rng[1])>>, !.drawn = Append(mc.drawn, z)]
           x == StepExponent(mc.sim.drift, mc.sim.diffusion, z)
           current == RMul(mc.sim.current, Exp(x))
       IN  mc' = IF ExpOverflows(x) THEN Raise(f, "OverflowError", "math range error")
                 ELSE [f EXCEPT !.sim.current = current,
                                !.sim.prices = Append(mc.sim.prices, current)]
    /\ UNCHANGED <<lat, hist, ev>>

\* lines 60 and 150-159: _simulate_path returns its prices, payoff is
\* called on them and its value appended.
EndPath ==
    /\ mc.pc = "simulate"
    /\ Len(mc.sim.prices) - 1 = mc.steps
    /\ mc' = [mc EXCEPT !.path = mc.sim.prices,
                 !.sim = NoSim,
                 !.calls = Append(mc.calls, mc.sim.prices),
                 !.payoffs = Append(mc.payoffs, PayoffValue(mc.payoff, mc.sim.prices)),
                 !.pc = "loop"]
    /\ UNCHANGED <<lat, hist, ev>>

\* line 161
McReturn ==
    /\ mc.pc = "loop"
    /\ Len(mc.payoffs) = mc.paths
    /\ mc' = [mc EXCEPT
                 !.result = RMul(mc.discount, RDiv(RSum(mc.payoffs), FromInt(Len(mc.payoffs)))),
                 !.pc = "returned"]
    /\ UNCHANGED <<lat, hist, ev>>

\* What an observer keeps of a returned call; others records that a call
\* with other arguments was made since.
Outcome(f) ==
    [args |-> McArgs(f), drawn |-> f.drawn, calls |-> f.calls, result |-> f.result,
     others |-> FALSE]

\* The caller has the price or the exception; the frame is gone.
McLeave ==
    /\ mc.pc \in {"returned", "raised"}
    /\ mc' = McIdle
    /\ UNCHANGED <<lat, hist, ev>>

\* The same, with an observer noting the outcome of a seeded call that
\* returned, to compare a later call with it.
McLeaveNoted ==
    /\ mc.pc = "returned"
    /\ mc.seed # <<>>
    /\ mc' = McIdle
    /\ hist' = <<Outcome(mc)>>
    /\ UNCHANGED <<lat, ev>>

-----------------------------------------------------------------------------
(* build_expression_payoff: the expression evaluator.                      *)
(*                                                                         *)
(* An expression is a name followed by attribute references, subscripts    *)
(* and calls, e.g. s.__class__.__base__.__subclasses__()[1].  eval reads   *)
(* it left to right, so the model evaluates it token by token: every       *)
(* expression of at most MaxTokens tokens is a path of the model.  Values  *)
(* are the kinds of object a CPython process holds; eval restricts the     *)
(* names an expression starts from and nothing else.                       *)

MaxTokens == 10

\* The keys of extra_context a caller passes.
ExtraContexts == {{}, {"strike"}}

\* local_vars, lines 83-90.
LocalNames(extra) == {"path", "s", "st", "spot", "step"} \cup extra

\* Some of the public names of math (line 78), with max and min and the
\* "__builtins__" key itself (line 79).
GlobalNames == {"sqrt", "exp", "pi", "max", "min", "__builtins__"}

\* The builtins eval uses: safe_globals["__builtins__"], the empty dict.
BuiltinNames == {}

\* Names of the interpreter that are in none of the namespaces.
OtherNames == {"open", "__import__", "os"}

ExprNames == LocalNames({"strike"}) \cup GlobalNames \cup OtherNames

Attributes == {"__class__", "__base__", "__subclasses__", "__init__", "__globals__"}
Subscripts == {"[0]", "[1]", "['system']"}

Classes ==
    {"class float", "class list", "class dict", "class builtin", "class type",
     "class object", "class function", "class NoneType", "class _wrap_close"}

\* The object a name is bound to: locals first, then globals (eval's order).
NameValue(name) ==
    IF name = "path" THEN "list"
    ELSE IF name \in {"sqrt", "exp", "max", "min"} THEN "builtin"
    ELSE IF name = "__builtins__" THEN "dict"
    ELSE "float"

\* The name lookup of eval(code, safe_globals, local_vars).
Resolves(name, extra) == name \in LocalNames(extra) \cup GlobalNames \cup BuiltinNames

\* type(v)
ClassOf(v) ==
    IF v \in {"float", "list", "dict"} THEN "class " \o v
    ELSE IF v \in {"builtin", "object.__subclasses__", "type.__subclasses__"} THEN "class builtin"
    ELSE IF v = "_wrap_close.__init__" THEN "class function"
    ELSE IF v = "none" THEN "class NoneType"
    ELSE IF v = "instance" THEN "class object"
    ELSE IF v = "wrapper" THEN "class builtin"
    ELSE IF v \in {"subclasses", "empty list"} THEN "class list"
    ELSE IF v = "os globals" THEN "class dict"
    ELSE IF v = "os.system" THEN "class builtin"
    ELSE "class type"

\* getattr(v, a): the value, or "AttributeError".
GetAttr(v, a) ==
    IF a = "__class__" THEN ClassOf(v)
    ELSE IF a = "__base__" THEN
        IF v = "class object" THEN "none"
        ELSE IF v \in Classes THEN "class object"
        ELSE "AttributeError"
    ELSE IF a = "__subclasses__" THEN
        IF v = "class object" THEN "object.__subclasses__"
        ELSE IF v \in Classes THEN "type.__subclasses__"
        ELSE "AttributeError"
    ELSE IF a = "__init__" THEN
        IF v = "class _wrap_close" THEN "_wrap_close.__init__" ELSE "wrapper"
    ELSE \* __globals__: Python functions have it, builtin functions do not
        IF v = "_wrap_close.__init__" THEN "os globals" ELSE "AttributeError"

\* v[k]: the value, or the exception.
GetItem(v, k) ==
    IF v = "list" THEN (IF k = "['system']" THEN "TypeError" ELSE "float")
    ELSE IF v = "subclasses" THEN
        IF k = "[0]" THEN "class float"
        ELSE IF k = "[1]" THEN "class _wrap_close"
        ELSE "TypeError"
    ELSE IF v = "empty list" THEN (IF k = "['system']" THEN "TypeError" ELSE "IndexError")
    ELSE IF v = "os globals" THEN (IF k = "['system']" THEN "os.system" ELSE "KeyError")
    ELSE IF v = "dict" THEN "KeyError"
    ELSE "TypeError"

\* v(...): the value, or "TypeError" (not callable, or arguments missing).
CallValue(v) ==
    IF v \in {"builtin", "class float", "os.system"} THEN "float"
    ELSE IF v = "class list" THEN "empty list"
    ELSE IF v = "class dict" THEN "dict"
    ELSE IF v = "class object" THEN "instance"
    ELSE IF v = "object.__subclasses__" THEN "subclasses"
    ELSE IF v = "type.__subclasses__" THEN "empty list"
    ELSE "TypeError"

Exceptions == {"AttributeError", "TypeError", "KeyError", "IndexError"}

\* Objects of the host process outside the numeric namespace: the globals
\* of module os and the functions in it.
HostObjects == {"os globals", "os.system"}

EvIdle ==
    [pc |-> "idle", extra |-> {}, expr |-> <<>>, val |-> "none", error |-> NoError,
     result |-> "none", host |-> FALSE]

\* line 77-80: compile(expression, "<payoff>", "eval") raises SyntaxError
\* for a statement; for an expression the payoff function is returned.
BuildPayoff ==
    /\ ev.pc = "idle"
    /\ \E extra \in ExtraContexts, form \in {"expression", "statement"} :
          ev' = IF form = "statement"
                THEN Raise([EvIdle EXCEPT !.extra = extra], "SyntaxError", "invalid syntax")
                ELSE [EvIdle EXCEPT !.extra = extra, !.pc = "built"]
    /\ UNCHANGED <<lat, mc, hist>>

\* lines 82-91: payoff(path) builds local_vars and eval starts with the
\* name the expression begins with.
EvalName ==
    /\ ev.pc = "built"
    /\ \E name \in ExprNames :
          ev' = IF Resolves(name, ev.extra)
                THEN [ev EXCEPT !.pc = "eval", !.expr = <<name>>, !.val = NameValue(name)]
                ELSE Raise([ev EXCEPT !.expr = <<name>>], "NameError", "name is not defined")
    /\ UNCHANGED <<lat, mc, hist>>

\* The result of one more token applied to the value held.
EvalToken(token, out) ==
    IF out \in Exceptions
    THEN Raise([ev EXCEPT !.expr = Append(ev.expr, token)], out, "")
    ELSE [ev EXCEPT !.expr = Append(ev.expr, token), !.val = out,
                    !.host = ev.host \/ (token = "()" /\ ev.val \in HostObjects)]

\* line 91, eval: an attribute reference.
EvalAttribute ==
    /\ ev.pc = "eval"
    /\ Len(ev.expr) < MaxTokens
    /\ \E a \in Attributes : ev' = EvalToken(a, GetAttr(ev.val, a))
    /\ UNCHANGED <<lat, mc, hist>>

\* line 91, eval: a subscript.
EvalSubscript ==
    /\ ev.pc = "eval"
    /\ Len(ev.expr) < MaxTokens
    /\ \E k \in Subscripts : ev' = EvalToken(k, GetItem(ev.val, k))
    /\ UNCHANGED <<lat, mc, hist>>

\* line 91, eval: a call.
EvalCall ==
    /\ ev.pc = "eval"
    /\ Len(ev.expr) < MaxTokens
    /\ ev' = EvalToken("()", CallValue(ev.val))
    /\ UNCHANGED <<lat, mc, hist>>

\* line 91: float(...) of the value of the whole expression.
ToFloat ==
    /\ ev.pc = "eval"
    /\ ev' = IF ev.val = "float" THEN [ev EXCEPT !.pc = "returned", !.result = "float"]
             ELSE Raise(ev, "TypeError", "float() argument must be a string or a real number")
    /\ UNCHANGED <<lat, mc, hist>>

\* The caller has the payoff value or the exception.
EvLeave ==
    /\ ev.pc \in {"returned", "raised"}
    /\ ev' = EvIdle
    /\ UNCHANGED <<lat, mc, hist>>

Init == lat = Idle /\ mc = McIdle /\ hist = <<>> /\ ev = EvIdle

Next ==
    \/ Call
    \/ Validate
    \/ ComputeFactors
    \/ CheckProbability
    \/ Terminal
    \/ InductionStep
    \/ Return
    \/ Leave

\* The lattice pricer.
Spec == Init /\ [][Next]_vars

NextMC ==
    \/ McCall
    \/ McValidate
    \/ McSetup
    \/ BeginPath
    \/ SimulateStep
    \/ EndPath
    \/ McReturn
    \/ McLeave

\* The Monte Carlo pricer.
SpecMC == Init /\ [][NextMC]_vars

NextRepro ==
    \/ NextMC
    \/ McLeaveNoted

\* The Monte Carlo pricer called again and again, one earlier seeded outcome
\* kept for comparison.
SpecRepro == Init /\ [][NextRepro]_vars

NextPayoff ==
    \/ BuildPayoff
    \/ EvalName
    \/ EvalAttribute
    \/ EvalSubscript
    \/ EvalCall
    \/ ToFloat
    \/ EvLeave

\* The payoff expression evaluator.
SpecPayoff == Init /\ [][NextPayoff]_vars

-----
(* Claims about price_binomial_option.                                     *)

\* The call has run past _validate_inputs.
PastValidation == lat.pc \notin {"idle", "validate"}

BadField ==
    \/ RLe(lat.spot, Zero)
    \/ RLe(lat.strike, Zero)
    \/ RLe(lat.maturity, Zero)
    \/ lat.steps < 1

NothingDerived ==
    /\ lat.dt = None /\ lat.up = None /\ lat.down = None /\ lat.growth = None
    /\ lat.prob_up = None /\ lat.discount = None

\* C1: whenever spot <= 0, strike <= 0, maturity <= 0 or steps < 1, whatever
\* the other arguments, the call fails with InvalidParameter, and it does so
\* before dt, up, down, prob_up or any payoff is computed; no price is
\* returned.
C1_InvalidParameter ==
    (PastValidation /\ BadField) =>
        /\ lat.pc = "raised"
        /\ InvalidParameter(lat.error)
        /\ NothingDerived
        /\ lat.payoffs = <<>>
        /\ lat.result = None

\* A call with valid spot, strike and maturity and steps < 1 has failed.
C1_Witness ==
    /\ lat.pc = "raised"
    /\ lat.error.msg = StepsMsg
    /\ lat.steps < 1
    /\ ~RLe(lat.spot, Zero)

\* prob_up has been derived and the probability check has run.
PastCheck == lat.pc \notin {"idle", "validate", "factors", "check"} /\ lat.prob_up # None

\* C2: for parameters that pass validation, a derived prob_up below 0 or above
\* 1 makes the call fail with InvalidModel before the terminal payoffs or any
\* induction step; prob_up is never clamped (it stays (growth-down)/(up-down)),
\* and a returned price had 0 <= prob_up <= 1.
C2_InvalidModel ==
    /\ PastCheck => lat.prob_up = ProbUp(lat.growth, lat.up, lat.down)
    /\ (PastCheck /\ ProbOutside(lat.prob_up)) =>
          /\ lat.pc = "raised"
          /\ InvalidModel(lat.error)
          /\ lat.discount = None
          /\ lat.payoffs = <<>>
          /\ lat.result = None
    /\ lat.pc = "returned" =>
          /\ lat.prob_up # None
          /\ RLe(Zero, lat.prob_up)
          /\ RLe(lat.prob_up, One)

\* A call whose derived prob_up exceeds 1 has failed with InvalidModel.
C2_Witness ==
    /\ lat.pc = "raised"
    /\ InvalidModel(lat.error)
    /\ RLt(One, lat.prob_up)

\* C3: for spot > 0, strike > 0, maturity > 0, steps >= 1 and volatility >= 0
\* (0 included) the call ends by returning a price or by failing with
\* InvalidModel; it raises nothing else.
C3_PriceOrInvalidModel ==
    (lat.pc = "raised" /\ ~BadField /\ RLe(Zero, lat.volatility)) => InvalidModel(lat.error)

RECURSIVE Choose(_, _)
Choose(n, k) == IF k = 0 \/ k = n THEN 1 ELSE Choose(n - 1, k - 1) + Choose(n - 1, k)

\* SUM_{i=from..n} C(n,i) * p^i * (1-p)^(n-i) * payoff_i
RECURSIVE BinomialSum(_, _, _)
BinomialSum(f, n, from) ==
    IF from > n THEN Zero
    ELSE RAdd(RMul(RMul(FromInt(Choose(n, from)),
                        RMul(RPow(f.prob_up, from), RPow(RSub(One, f.prob_up), n - from))),
                   Intrinsic(AssetPrice(f.spot, f.up, f.down, from, n), f.strike, f.option_type)),
              BinomialSum(f, n, from + 1))

\* discount^N times the expectation of the terminal payoff.
ClosedForm(f) == RMul(RPow(f.discount, f.steps), BinomialSum(f, f.steps, 0))

\* C4: a european call returns the closed-form discounted expectation of the
\* terminal payoff under the binomial distribution with parameter prob_up.
C4_EuropeanClosedForm ==
    (lat.pc = "returned" /\ lat.exercise = "european") => lat.result = ClosedForm(lat)

\* A european price over the deepest lattice, with an interior probability
\* and a positive value.
C4_Witness ==
    /\ lat.pc = "returned"
    /\ lat.exercise = "european"
    /\ lat.steps >= 3
    /\ RLt(Zero, lat.prob_up) /\ RLt(lat.prob_up, One)
    /\ RLt(Zero, lat.result)

InInduction == lat.pc \in {"induct", "return", "returned"}

\* The payoffs of the european run of the same parameters at the point of
\* the loops the current call is at.
EuropeanPayoffs ==
    InductionFrom([lat EXCEPT !.american = FALSE],
                  TerminalPayoffs(lat.spot, lat.strike, lat.up, lat.down, lat.steps,
                                  lat.option_type),
                  lat.steps - 1, 0,
                  IF lat.pc = "induct" THEN lat.step ELSE -1,
                  IF lat.pc = "induct" THEN lat.i ELSE 0)

\* C5: at every point of the backward induction every entry of an american
\* run is >= the same entry of the european run of the same parameters, and
\* so is the price returned.
C5_AmericanAtLeastEuropean ==
    (InInduction /\ lat.american) =>
        /\ \A k \in 1..(lat.steps + 1) : RLe(EuropeanPayoffs[k], lat.payoffs[k])
        /\ lat.pc = "returned" => RLe(EuropeanPayoffs[1], lat.result)

\* An american price strictly above the european one: early exercise pays.
C5_Witness ==
    /\ lat.pc = "returned"
    /\ lat.american
    /\ lat.steps >= 2
    /\ RLt(EuropeanPayoffs[1], lat.result)

\* The node value V(step, i) of the lattice of the current call, computed
\* level by level with nothing shared between levels: the terminal payoff at
\* step = N, below it delta * (p * V(step+1, i+1) + (1-p) * V(step+1, i)),
\* the larger of that and the intrinsic value at S0 * u^i * d^(step-i) when
\* the exercise is american.
RECURSIVE V(_, _)
V(step, i) ==
    LET price == RMul(RMul(lat.spot, RPow(lat.up, i)), RPow(lat.down, step - i))
        intrinsic == IF lat.option_type = "call"
                     THEN RMax(RSub(price, lat.strike), Zero)
                     ELSE RMax(RSub(lat.strike, price), Zero)
    IN  IF step >= lat.steps THEN intrinsic
        ELSE LET continuation ==
                     RMul(lat.discount,
                          RAdd(RMul(lat.prob_up, V(step + 1, i + 1)),
                               RMul(RSub(One, lat.prob_up), V(step + 1, i))))
             IN  IF lat.exercise = "american" THEN RMax(continuation, intrinsic)
                 ELSE continuation

\* The level the finished passes have brought payoffs to: inside the pass for
\* lat.step it is lat.step + 1, after the last pass it is 0.
FinishedLevel == IF lat.pc = "induct" THEN lat.step + 1 ELSE 0

\* The entries the pass in progress has overwritten so far (none after the
\* last pass).
Overwritten == IF lat.pc = "induct" THEN 0..(lat.i - 1) ELSE {}

\* C11: during the in-place backward induction the entries the pass for
\* lat.step has overwritten hold V(lat.step, .), and every entry it has still
\* to read, i..step+1, holds the value V(step+1, .) the finished pass left, so
\* no iteration reads an entry overwritten in its own pass and each pass
\* gives what a second buffer would; when a pass is finished entries 0..step
\* hold V(step, .), and the value returned is V(0, 0).
C11_InPlaceInduction ==
    InInduction =>
        /\ \A k \in Overwritten : lat.payoffs[k + 1] = V(lat.step, k)
        /\ \A k \in (0..FinishedLevel) \ Overwritten :
               lat.payoffs[k + 1] = V(FinishedLevel, k)
        /\ lat.pc = "returned" => lat.result = V(0, 0)

\* In the middle of a pass of an american run over the deepest lattice: an
\* entry has been overwritten with a value that differs from the one the
\* pass before left there, and the entry beside it is still to be read.
C11_Witness ==
    /\ lat.pc = "induct"
    /\ lat.american
    /\ lat.steps >= 3
    /\ lat.i >= 1
    /\ lat.payoffs[lat.i] # V(lat.step + 1, lat.i - 1)
    /\ lat.payoffs[lat.i] # lat.payoffs[lat.i + 1]
    /\ RLt(Zero, lat.prob_up) /\ RLt(lat.prob_up, One)

-----------------------------------------------------------------------------
(* Claims about price_monte_carlo_option.                                  *)

McDt == RDiv(mc.maturity, FromInt(mc.steps))

\* The path that starts at spot and takes one step per variate of zs.
RECURSIVE PathOfDraws(_)
PathOfDraws(zs) ==
    IF zs = <<>> THEN <<mc.spot>>
    ELSE LET before == PathOfDraws(SubSeq(zs, 1, Len(zs) - 1))
             x == StepExponent(Drift(mc.rate, mc.dividend_yield, mc.volatility, McDt),
                               Diffusion(mc.volatility, McDt), zs[Len(zs)])
         IN  Append(before, RMul(before[Len(before)], Exp(x)))

\* The variates of trial t: the t-th block of steps draws.
DrawsOfTrial(t) == SubSeq(mc.drawn, (t - 1) * mc.steps + 1, t * mc.steps)

\* C6: a call that returns has generated exactly M paths, each of N+1 prices
\* starting at spot and built from the N variates drawn in its own trial and
\* nothing else; payoff was called once per path in trial order; the price
\* is exp(-r*T) * (sum of the M payoff values / M).
C6_DiscountedSampleMean ==
    /\ Len(mc.calls) = Len(mc.payoffs)
    /\ Len(mc.calls) <= mc.paths
    /\ mc.pc = "returned" =>
          /\ Len(mc.calls) = mc.paths
          /\ Len(mc.drawn) = mc.paths * mc.steps
          /\ \A t \in 1..mc.paths :
                /\ Len(mc.calls[t]) = mc.steps + 1
                /\ mc.calls[t][1] = mc.spot
                /\ mc.calls[t] = PathOfDraws(DrawsOfTrial(t))
                /\ mc.payoffs[t] = PayoffValue(mc.payoff, mc.calls[t])
          /\ mc.result = RMul(Exp(RMul(RNeg(mc.rate), mc.maturity)),
                              RDiv(RSum(mc.payoffs), FromInt(mc.paths)))

\* A returned call of two trials of two steps whose paths differ.
C6_Witness ==
    /\ mc.pc = "returned"
    /\ mc.paths >= 2
    /\ mc.steps >= 2
    /\ mc.calls[1] # mc.calls[2]
    /\ RLt(Zero, mc.result)

\* The first n variates of the generator started in state.
RECURSIVE DrawsFrom(_, _)
DrawsFrom(state, n) ==
    IF n = 0 THEN <<>>
    ELSE <<NormalVariate(state)>> \o DrawsFrom(RngAdvance(state), n - 1)

\* C7: a seeded call that returns has drawn exactly M*N variates, the first
\* M*N of the generator of its seed, N per trial in trial order, and any
\* earlier call with the same seed, parameters and payoff, whatever was
\* called in between, drew the same variates, produced the same paths and
\* returned the same price.
C7_SeededReproducible ==
    (mc.pc = "returned" /\ mc.seed # <<>>) =>
        /\ Len(mc.drawn) = mc.paths * mc.steps
        /\ \A t \in 1..mc.paths : mc.calls[t] = PathOfDraws(DrawsOfTrial(t))
        /\ mc.drawn = DrawsFrom(RngFromSeed(mc.seed[1]), mc.paths * mc.steps)
        /\ (hist # <<>> /\ hist[1].args = McArgs(mc)) =>
              /\ hist[1].drawn = mc.drawn
              /\ hist[1].calls = mc.calls
              /\ hist[1].result = mc.result

\* A seeded call repeated after a call with other arguments, with variates
\* that move the price.
C7_Witness ==
    /\ mc.pc = "returned"
    /\ mc.seed # <<>>
    /\ hist # <<>>
    /\ hist[1].args = McArgs(mc)
    /\ hist[1].others
    /\ mc.paths >= 2
    /\ mc.calls[1] # mc.calls[2]

McPastValidation == mc.pc \notin {"idle", "validate"}

McBadField ==
    \/ RLe(mc.spot, Zero)
    \/ RLt(mc.volatility, Zero)
    \/ RLe(mc.maturity, Zero)
    \/ mc.steps < 1
    \/ mc.paths < 1

\* C8: whenever spot <= 0, volatility < 0, maturity <= 0, steps < 1 or
\* paths < 1 the call fails with InvalidParameter; no generator was created
\* or drawn from, no path was simulated and payoff was not called.
C8_McInvalidParameter ==
    (McPastValidation /\ McBadField) =>
        /\ mc.pc = "raised"
        /\ McInvalidParameter(mc.error)
        /\ mc.rng = <<>>
        /\ mc.drawn = <<>>
        /\ mc.sim = NoSim
        /\ mc.path = <<>>
        /\ mc.calls = <<>>
        /\ mc.payoffs = <<>>
        /\ mc.result = None

\* A call with a negative volatility and nothing else wrong has failed.
C8_Witness ==
    /\ mc.pc = "raised"
    /\ mc.error.msg = VolatilityMsg
    /\ RLt(mc.volatility, Zero)
    /\ mc.steps >= 1
    /\ mc.paths >= 1

\* spot * G^k for k = 0..n, G = exp((rate - dividend_yield) * dt)
ForwardPath(n) ==
    [k \in 1..(n + 1) |->
        RMul(mc.spot, RPow(Exp(RMul(RSub(mc.rate, mc.dividend_yield), McDt)), k - 1))]

\* C10: with volatility = 0 every path, finished or under construction, is
\* the forward price spot * G^k at every step k, whatever the seed and the
\* variates; all paths of the call are equal and the price is the discounted
\* payoff of the forward path.
C10_ZeroVolatilityForward ==
    (McPastValidation /\ mc.pc # "raised" /\ mc.volatility = Zero) =>
        /\ \A t \in 1..Len(mc.calls) : mc.calls[t] = ForwardPath(mc.steps)
        /\ mc.pc = "simulate" =>
              mc.sim.prices = ForwardPath(Len(mc.sim.prices) - 1)
        /\ mc.pc = "returned" =>
              mc.result = RMul(Exp(RMul(RNeg(mc.rate), mc.maturity)),
                               PayoffValue(mc.payoff, ForwardPath(mc.steps)))

\* A zero-volatility call of two trials has returned after drawing
\* variates that are not all equal, along a forward path that moves.
C10_Witness ==
    /\ mc.pc = "returned"
    /\ mc.volatility = Zero
    /\ mc.paths >= 2
    /\ mc.steps >= 2
    /\ \E a, b \in 1..Len(mc.drawn) : mc.drawn[a] # mc.drawn[b]
    /\ mc.calls[1][2] # mc.spot

-----------------------------------------------------------------------------
(* Claims about build_expression_payoff.                                   *)

\* The names the contract lets an expression use.
ContractNames(extra) ==
    {"path", "s", "st", "spot", "step"} \cup extra \cup {"sqrt", "exp", "pi", "max", "min"}

\* C9: an expression that starts from a name outside path, s, st, spot,
\* step, the keys of extra_context, the math functions, max and min produces
\* no payoff value, and no expression, however built, reaches an object of
\* the host process outside the numeric namespace or calls one.
C9_NoHostAccess ==
    /\ ev.pc = "returned" => ev.expr[1] \in ContractNames(ev.extra)
    /\ ev.val \notin HostObjects
    /\ ~ev.host

=============================================================================
